---- MODULE Spec2Model ----
(***************************************************************************)
(* A model of MailMute (src/main.py): the content analyzer                 *)
(* (MailMuteAlgorithm), the history store (DatabaseManager), the executor  *)
(* (SmartUnsubscriber) and the two worker passes of the application        *)
(* (MailMute.analyze_emails, MailMute.perform_unsubscribe).                *)
(*                                                                         *)
(* Python strings are TLA+ strings: Len, \o and SubSeq act on them, so     *)
(* substring tests, lower-casing and the regular expressions of the source *)
(* are computed, not tabulated.  Floating point scores are kept in         *)
(* hundredths (0.4 is 40, 0.05 is 5).                                      *)
(***************************************************************************)
EXTENDS Integers, Sequences, FiniteSets, TLC

-----------------------------------------------------------------------------
(* Python string primitives *)

Min(a, b) == IF a <= b THEN a ELSE b

\* s[i] as a one-character string
Char(s, i) == SubSeq(s, i, i)

\* s[:n]
Take(s, n) == SubSeq(s, 1, Min(n, Len(s)))

\* s[n:] with n counted from 0
Drop(s, n) == IF n >= Len(s) THEN SubSeq(s, 1, 0) ELSE SubSeq(s, n + 1, Len(s))

\* t occurs in s at position i (1-based)
At(s, i, t) == i >= 1 /\ i + Len(t) - 1 <= Len(s) /\ SubSeq(s, i, i + Len(t) - 1) = t

\* t in s
Contains(s, t) == \E i \in 1..(Len(s) - Len(t) + 1) : At(s, i, t)

\* s.startswith(p)
StartsWith(s, p) == At(s, 1, p)

\* s.find(t, from): the first position >= from where t occurs, 0 when none
Find(s, t, from) ==
    LET hits == {i \in from..(Len(s) - Len(t) + 1) : At(s, i, t)}
    IN  IF hits = {} THEN 0 ELSE CHOOSE i \in hits : \A j \in hits : i <= j

UpperAlpha == "ABCDEFGHIJKLMNOPQRSTUVWXYZ"
LowerAlpha == "abcdefghijklmnopqrstuvwxyz"

LowerOf == [c \in {Char(UpperAlpha, k) : k \in 1..26} |->
               Char(LowerAlpha, Find(UpperAlpha, c, 1))]

LowerChar(c) == IF c \in DOMAIN LowerOf THEN LowerOf[c] ELSE c

\* s.lower()
RECURSIVE Lower(_)
Lower(s) ==
    IF Len(s) <= 1 THEN LowerChar(s)
    ELSE LET h == Len(s) \div 2
         IN  Lower(SubSeq(s, 1, h)) \o Lower(SubSeq(s, h + 1, Len(s)))

IsSpace(c) == c \in {" ", "\t", "\n", "\r"}

\* s.strip()
Strip(s) ==
    LET keep == {i \in 1..Len(s) : ~IsSpace(Char(s, i))}
    IN  IF keep = {} THEN SubSeq(s, 1, 0)
        ELSE LET a == CHOOSE i \in keep : \A j \in keep : i <= j
                 b == CHOOSE i \in keep : \A j \in keep : i >= j
             IN  SubSeq(s, a, b)

\* str(n) for 0 <= n <= 999
Digits == "0123456789"
Str(n) ==
    IF n < 10 THEN Char(Digits, n + 1)
    ELSE IF n < 100 THEN Char(Digits, (n \div 10) + 1) \o Char(Digits, (n % 10) + 1)
    ELSE Char(Digits, (n \div 100) + 1) \o Char(Digits, ((n \div 10) % 10) + 1)
         \o Char(Digits, (n % 10) + 1)

-----------------------------------------------------------------------------
(* Regular expressions of the source.  A pattern is a sequence of literal  *)
(* parts; between two parts stands ".*" (gap "*": any run of characters    *)
(* other than newline) or ".?" (gap "?": at most one such character).      *)

NoNewline(s, a, b) == \A k \in a..b : Char(s, k) # "\n"

RECURSIVE MatchFrom(_, _, _, _)
MatchFrom(s, p, k, pos) ==
    IF k > Len(p.parts) THEN TRUE
    ELSE LET last == IF p.gap = "?" THEN Min(pos + 1, Len(s)) ELSE Len(s)
         IN  \E i \in pos..last :
                /\ At(s, i, p.parts[k])
                /\ NoNewline(s, pos, i - 1)
                /\ MatchFrom(s, p, k + 1, i + Len(p.parts[k]))

\* re.search(p, s) is not None
ReSearch(p, s) ==
    \E i \in 1..Len(s) :
        At(s, i, p.parts[1]) /\ MatchFrom(s, p, 2, i + Len(p.parts[1]))

unsubscribe_patterns ==
    << [parts |-> <<"unsubscribe">>, gap |-> "*"],
       [parts |-> <<"opt", "out">>, gap |-> "?"],
       [parts |-> <<"remove", "list">>, gap |-> "*"],
       [parts |-> <<"stop", "email">>, gap |-> "*"],
       [parts |-> <<"cancel", "subscription">>, gap |-> "*"],
       [parts |-> <<"manage", "preferences">>, gap |-> "*"],
       [parts |-> <<"email", "settings">>, gap |-> "*"],
       [parts |-> <<"notification", "settings">>, gap |-> "*"],
       [parts |-> <<"mailing", "list", "remove">>, gap |-> "*"],
       [parts |-> <<"leave", "list">>, gap |-> "*"],
       [parts |-> <<"turn", "off", "notifications">>, gap |-> "*"] >>

sender_blacklist ==
    << "noreply", "no-reply", "donotreply", "do-not-reply",
       "newsletter", "marketing", "promo", "deals" >>

-----------------------------------------------------------------------------
(* Messages.  A message is what email.message_from_bytes hands to the      *)
(* analyzer: its header fields (None when the header is absent) and its    *)
(* body parts in walk() order.  A part's payload is the parsed HTML        *)
(* document, a sequence of nodes in document order, each with its tag, its *)
(* attributes (None when absent) and its text; <<>> is an empty payload.   *)

None == ">None<"

\* msg.get(name, default)
Get(msg, name, default) == IF msg[name] = None THEN default ELSE msg[name]

\* bool(s) of an optional string
Truthy(s) == s # None /\ s # ""

Range(f) == {f[i] : i \in DOMAIN f}

TextNode(t) ==
    [tag |-> "text", href |-> None, type |-> None, onclick |-> None, text |-> t]
Anchor(href, t) ==
    [tag |-> "a", href |-> href, type |-> None, onclick |-> None, text |-> t]
Button(onclick, t) ==
    [tag |-> "button", href |-> None, type |-> "button", onclick |-> onclick, text |-> t]

\* MailMuteAlgorithm.extract_sender
extract_sender(msg) ==
    LET sender == Get(msg, "From", "Unknown Sender")
    IN  IF Contains(sender, "<") /\ Contains(sender, ">")
        THEN LET rest == Drop(sender, Find(sender, "<", 1))
                 b    == Find(rest, "<", 1)
                 seg  == IF b = 0 THEN rest ELSE Take(rest, b - 1)
                 c    == Find(seg, ">", 1)
             IN  IF c = 0 THEN seg ELSE Take(seg, c - 1)
        ELSE sender

\* The Date values email.utils.parsedate_to_datetime accepts, among those
\* the messages of this model carry.
WellFormedDates == {"Mon, 02 Nov 2026 10:00:00 +0000"}

\* datetime.now()
Now == "now"

\* MailMuteAlgorithm.parse_email_date
parse_email_date(date_str) ==
    IF date_str \in WellFormedDates THEN date_str ELSE Now

\* re.search(r'<mailto:([^>]+)>', header): the group of the first match
MailtoMatch(header) ==
    LET ok(i) == /\ At(header, i, "<mailto:")
                 /\ Find(header, ">", i + 8) > i + 8
        hits  == {i \in 1..Len(header) : ok(i)}
    IN  IF hits = {} THEN None
        ELSE LET i == CHOOSE i \in hits : \A j \in hits : i <= j
             IN  SubSeq(header, i + 8, Find(header, ">", i + 8) - 1)

\* The length of "http://" or "https://" at position i of s, 0 when neither
SchemeAt(s, i) ==
    IF At(s, i, "http://") THEN 7 ELSE IF At(s, i, "https://") THEN 8 ELSE 0

\* re.findall(r'<(https?://[^>]+)>', header), scanning from position pos
RECURSIVE HttpMatches(_, _)
HttpMatches(header, pos) ==
    LET ok(i) == /\ At(header, i, "<")
                 /\ SchemeAt(header, i + 1) > 0
                 /\ Find(header, ">", i + 1 + SchemeAt(header, i + 1))
                        > i + 1 + SchemeAt(header, i + 1)
        hits  == {i \in pos..Len(header) : ok(i)}
    IN  IF hits = {} THEN <<>>
        ELSE LET i == CHOOSE i \in hits : \A j \in hits : i <= j
                 e == Find(header, ">", i + 1 + SchemeAt(header, i + 1))
             IN  <<SubSeq(header, i + 1, e - 1)>> \o HttpMatches(header, e + 1)

\* MailMuteAlgorithm.parse_list_unsubscribe_header
parse_list_unsubscribe_header(header) ==
    [unsubscribe_email |-> MailtoMatch(header), links |-> HttpMatches(header, 1)]

\* MailMuteAlgorithm.extract_html_content: the first text/html part with a
\* payload; a single-part message is its own only part.
extract_html_content(msg) ==
    LET hits == {k \in 1..Len(msg.parts) :
                    msg.parts[k].ctype = "text/html" /\ msg.parts[k].payload # <<>>}
    IN  IF hits = {} THEN <<>>
        ELSE msg.parts[CHOOSE k \in hits : \A j \in hits : k <= j].payload

\* soup.get_text(): the text of every node, in document order
RECURSIVE GetText(_)
GetText(html) ==
    IF html = <<>> THEN "" ELSE Head(html).text \o GetText(Tail(html))

\* MailMuteAlgorithm.extract_text_preview
extract_text_preview(html_content) == Take(GetText(html_content), 500)

\* Some pattern of unsubscribe_patterns[1..n] is found in s
AnyPattern(s, n) == \E k \in 1..n : ReSearch(unsubscribe_patterns[k], s)

\* re.search(r'https?://[^\s\'"]+', onclick): the first match, None when none
UrlMatch(onclick) ==
    LET stop(c) == IsSpace(c) \/ c = "'" \/ c = "\""
        ok(i)   == /\ SchemeAt(onclick, i) > 0
                   /\ i + SchemeAt(onclick, i) <= Len(onclick)
                   /\ ~stop(Char(onclick, i + SchemeAt(onclick, i)))
        hits    == {i \in 1..Len(onclick) : ok(i)}
    IN  IF hits = {} THEN None
        ELSE LET i    == CHOOSE i \in hits : \A j \in hits : i <= j
                 ends == {e \in i..Len(onclick) :
                             /\ \A k \in i..e : ~stop(Char(onclick, k))
                             /\ (e = Len(onclick) \/ stop(Char(onclick, e + 1)))}
             IN  SubSeq(onclick, i, CHOOSE e \in ends : TRUE)

\* Any href is kept
AnyScheme(href) == TRUE

\* href.startswith(('http://', 'https://'))
IsHttp(href) == StartsWith(href, "http://") \/ StartsWith(href, "https://")

\* MailMuteAlgorithm.extract_smart_unsubscribe_links: the anchors first,
\* then the buttons, each in document order
RECURSIVE AnchorLinks(_)
AnchorLinks(html) ==
    IF html = <<>> THEN <<>>
    ELSE LET n    == Head(html)
             take == /\ n.tag = "a"
                     /\ n.href # None
                     /\ \/ AnyPattern(Lower(n.href), Len(unsubscribe_patterns))
                        \/ AnyPattern(Lower(Strip(n.text)), Len(unsubscribe_patterns))
                     /\ IsHttp(n.href)
         IN  (IF take THEN <<n.href>> ELSE <<>>) \o AnchorLinks(Tail(html))

RECURSIVE ButtonLinks(_)
ButtonLinks(html) ==
    IF html = <<>> THEN <<>>
    ELSE LET n       == Head(html)
             onclick == IF n.onclick = None THEN "" ELSE n.onclick
             take    == /\ n.tag \in {"button", "input"}
                        /\ n.type = "button"
                        /\ \/ AnyPattern(Lower(Strip(n.text)), Len(unsubscribe_patterns))
                           \/ AnyPattern(onclick, Len(unsubscribe_patterns))
                        /\ UrlMatch(onclick) # None
         IN  (IF take THEN <<UrlMatch(onclick)>> ELSE <<>>) \o ButtonLinks(Tail(html))

extract_smart_unsubscribe_links(html_content) ==
    AnchorLinks(html_content) \o ButtonLinks(html_content)

\* MailMuteAlgorithm.calculate_confidence_score, in hundredths.  The
\* unsubscribe_links it is given is the list as extracted, before
\* analyze_email_content deduplicates it.
\* if list_unsubscribe_header is not None
HeaderScoreNotNone(list_unsubscribe_header) ==
    IF list_unsubscribe_header # None THEN 40 ELSE 0

HeaderScore(list_unsubscribe_header) ==
    IF Truthy(list_unsubscribe_header) THEN 40 ELSE 0

LinkScore(unsubscribe_links) ==
    IF Len(unsubscribe_links) > 0
    THEN 30 + Min(Len(unsubscribe_links) * 10, 20) ELSE 0

SenderScore(sender) ==
    LET sender_lower == Lower(sender)
    IN  IF \E k \in 1..Len(sender_blacklist) : Contains(sender_lower, sender_blacklist[k])
        THEN 10 ELSE 0

SubjectScore(subject) ==
    LET subject_lower == Lower(subject)
    IN  IF AnyPattern(subject_lower, 5) THEN 10 ELSE 0

ContentScore(content_preview) ==
    LET content_lower == Lower(content_preview)
        pattern_matches ==
            Cardinality({k \in 1..Len(unsubscribe_patterns) :
                            ReSearch(unsubscribe_patterns[k], content_lower)})
    IN  Min(pattern_matches * 5, 20)

UnclampedScore(sender, subject, unsubscribe_links, content_preview, header) ==
    HeaderScore(header) + LinkScore(unsubscribe_links) + SenderScore(sender)
        + SubjectScore(subject) + ContentScore(content_preview)

StackingScore(sender, subject, unsubscribe_links, content_preview, header) ==
    Min(HeaderScore(header) + LinkScore(unsubscribe_links)
          + 10 * Cardinality({k \in 1..Len(sender_blacklist) :
                                 Contains(Lower(sender), sender_blacklist[k])})
          + SubjectScore(subject) + ContentScore(content_preview), 100)

calculate_confidence_score(sender, subject, unsubscribe_links, content_preview, header) ==
    Min(HeaderScore(header) + LinkScore(unsubscribe_links) + SenderScore(sender)
          + SubjectScore(subject) + ContentScore(content_preview), 100)

\* The links analyze_email_content collects, in extraction order: those of
\* the List-Unsubscribe header, then those of the HTML body.
ExtractedLinks(msg) ==
    LET header == Get(msg, "ListUnsubscribe", "")
        html   == extract_html_content(msg)
    IN  (IF Truthy(header) THEN parse_list_unsubscribe_header(header).links ELSE <<>>)
        \o (IF html # <<>> THEN extract_smart_unsubscribe_links(html) ELSE <<>>)

\* list(S) of a set S: its elements in the order the set enumerates them
ListsOf(S) ==
    {f \in [1..Cardinality(S) -> S] : \A a, b \in DOMAIN f : f[a] = f[b] => a = b}

\* list(set(unsubscribe_links)): the links without repetition, in the order
\* the set happens to enumerate them (string hashing is seeded per process),
\* so any order.
\* list(unsubscribe_links)
KeepAll(links) == {links}

ListOfSet(links) == ListsOf(Range(links))

\* content_preview[:200] + "..."
AlwaysMarked(content_preview) == Take(content_preview, 200) \o "..."

\* content_preview[:200] + "..." if len(content_preview) > 200 else content_preview
StoredPreview(content_preview) ==
    IF Len(content_preview) > 200 THEN Take(content_preview, 200) \o "..."
    ELSE content_preview

\* MailMuteAlgorithm.analyze_email_content, with unsubscribe_links the
\* enumeration list(set(...)) produced
analyze_email_content(msg, unsubscribe_links) ==
    LET sender  == extract_sender(msg)
        subject == Get(msg, "Subject", "No Subject")
        header  == Get(msg, "ListUnsubscribe", "")
        html    == extract_html_content(msg)
        content_preview == IF html # <<>> THEN extract_text_preview(html) ELSE ""
    IN  [ email_id |-> Get(msg, "MessageID", ""),
          sender |-> sender,
          subject |-> subject,
          unsubscribe_links |-> unsubscribe_links,
          unsubscribe_email |->
              IF Truthy(header) THEN parse_list_unsubscribe_header(header).unsubscribe_email
              ELSE None,
          list_unsubscribe_header |-> header,
          confidence_score |->
              calculate_confidence_score(sender, subject, ExtractedLinks(msg),
                                         content_preview, header),
          email_date |-> parse_email_date(Get(msg, "Date", "")),
          content_preview |-> StoredPreview(content_preview) ]

\* The candidates analyze_email_content may return for msg
Analyses(msg) ==
    {analyze_email_content(msg, ls) : ls \in ListOfSet(ExtractedLinks(msg))}

-----------------------------------------------------------------------------
(* DatabaseManager.  A table is the sequence of its rows in rowid order.   *)

\* DatabaseManager.record_unsubscribe: INSERT OR REPLACE on the table whose
\* email_id column is UNIQUE (init_database) removes the row holding the
\* same email_id, then inserts the new row under the next AUTOINCREMENT id.
HistoryRow(id, info, status, method, notes) ==
    [ id |-> id, email_id |-> info.email_id, sender |-> info.sender,
      subject |-> info.subject, unsubscribe_date |-> Now,
      status |-> status, method |-> method, notes |-> notes ]

InsertOnly(table, id, info, status, method, notes) ==
    Append(table, HistoryRow(id, info, status, method, notes))

record_unsubscribe(table, id, info, status, method, notes) ==
    Append(SelectSeq(table, LAMBDA r : r.email_id # info.email_id),
           HistoryRow(id, info, status, method, notes))

\* An INSERT OR REPLACE that does not read the row it replaces
CountFromOne(table, sender) ==
    Append(SelectSeq(table, LAMBDA r : r.sender # sender),
           [ sender |-> sender, total_emails |-> 1, unsubscribed |-> 0,
             last_seen |-> Now ])

\* DatabaseManager.update_sender_stats: INSERT OR REPLACE keyed by sender
update_sender_stats(table, sender) ==
    LET old == SelectSeq(table, LAMBDA r : r.sender = sender)
    IN  Append(SelectSeq(table, LAMBDA r : r.sender # sender),
               [ sender |-> sender,
                 total_emails |-> (IF old = <<>> THEN 0 ELSE old[1].total_emails) + 1,
                 unsubscribed |-> IF old = <<>> THEN 0 ELSE old[1].unsubscribed,
                 last_seen |-> Now ])

\* str(e) of the sqlite3.Error a write to the database file may raise
DbErrors == {"attempt to write a readonly database"}

-----------------------------------------------------------------------------
(* SmartUnsubscriber.  What session.get(link, timeout=10,                  *)
(* allow_redirects=True) does is the environment's choice: it times out,   *)
(* raises another requests exception, raises an exception that is no       *)
(* RequestException, or returns a response.  A response body is its text   *)
(* and the texts of the <form> elements BeautifulSoup finds in it.         *)

Page(text, forms) == [text |-> text, forms |-> forms]

Pages ==
    { Page("<p>You have been Successfully Unsubscribed.</p>", <<>>),
      Page("<form action='/confirm'>Please confirm: Unsubscribe me</form>",
           <<"Please confirm: Unsubscribe me">>),
      Page("<p>Welcome back to our shop</p><form action='/q'>Search</form>",
           <<"Search">>) }

Responses ==
    {[kind |-> "timeout"]}
    \cup {[kind |-> "error", msg |-> "Connection refused"]}
    \cup {[kind |-> "crash", msg |-> "label empty or too long"]}
    \cup {[kind |-> "http", status_code |-> 404, page |-> Page("", <<>>)]}
    \cup {[kind |-> "http", status_code |-> 200, page |-> pg] : pg \in Pages}

\* SmartUnsubscriber.unsubscribe_via_email
unsubscribe_via_email(email_address) ==
    "Email unsubscribe request would be sent to: " \o email_address

success_indicators ==
    << "successfully unsubscribed", "removed from list", "unsubscribe successful",
       "email preferences updated", "subscription cancelled" >>

\* SmartUnsubscriber.check_unsubscribe_success
check_unsubscribe_success(html_content) ==
    LET content_lower == Lower(html_content)
    IN  \E k \in 1..Len(success_indicators) :
            Contains(content_lower, success_indicators[k])

\* SmartUnsubscriber.handle_unsubscribe_forms
handle_unsubscribe_forms(page, base_url) ==
    IF \E k \in 1..Len(page.forms) :
          \E word \in {"unsubscribe", "remove", "opt out"} :
              Contains(Lower(page.forms[k]), word)
    THEN "Found unsubscribe form at " \o base_url
             \o " (auto-submission not implemented for safety)"
    ELSE None

\* unsubscribe_via_link looking for a form before it looks for a success
\* phrase
FormFirst(link, response) ==
    IF response.kind = "timeout" THEN "Timeout accessing: " \o link
    ELSE IF response.kind = "error"
    THEN "Error accessing " \o link \o ": " \o response.msg
    ELSE IF response.status_code = 200
    THEN LET form_result == handle_unsubscribe_forms(response.page, link)
         IN  IF Truthy(form_result) THEN form_result
             ELSE IF check_unsubscribe_success(response.page.text)
             THEN "Successfully unsubscribed via: " \o link
             ELSE "Visited " \o link \o " but unclear if unsubscribed successfully"
    ELSE "Failed to visit " \o link \o " - Status Code: " \o Str(response.status_code)

\* SmartUnsubscriber.unsubscribe_via_link, for the responses it handles
\* itself (every kind but "crash", which leaves it as an exception)
unsubscribe_via_link(link, response) ==
    IF response.kind = "timeout" THEN "Timeout accessing: " \o link
    ELSE IF response.kind = "error"
    THEN "Error accessing " \o link \o ": " \o response.msg
    ELSE IF response.status_code = 200
    THEN IF check_unsubscribe_success(response.page.text)
         THEN "Successfully unsubscribed via: " \o link
         ELSE LET form_result == handle_unsubscribe_forms(response.page, link)
              IN  IF Truthy(form_result) THEN form_result
                  ELSE "Visited " \o link \o " but unclear if unsubscribed successfully"
    ELSE "Failed to visit " \o link \o " - Status Code: " \o Str(response.status_code)

\* 'success' in result.lower()
SignalsSuccess(result) == Contains(Lower(result), "success")

\* A Python dict is the sequence of its items in insertion order.
HasKey(d, key) == \E k \in 1..Len(d) : d[k].key = key

DictGet(d, key) == d[CHOOSE k \in 1..Len(d) : d[k].key = key].value

\* d[key] = value
DictSet(d, key, value) ==
    IF HasKey(d, key)
    THEN [k \in 1..Len(d) |-> IF d[k].key = key THEN [key |-> key, value |-> value] ELSE d[k]]
    ELSE Append(d, [key |-> key, value |-> value])

-----------------------------------------------------------------------------
(* The messages the mailbox may hold.                                      *)

MaxAnchors == 2
MaxNodes == 1
MaxEmails == 2
MaxRestarts == 1
MaxMailbox == 3
MaxRuns == 4

SeqsUpTo(S, n) == UNION {[1..k -> S] : k \in 0..n}

\* tree.selection(), or tree.get_children() when nothing is selected: some
\* rows, in tree order
Selections(n) ==
    {sel \in SeqsUpTo(1..n, n) :
        Len(sel) > 0 /\ \A k \in 1..(Len(sel) - 1) : sel[k] < sel[k + 1]}

Message(mid, from, subject, date, header, html) ==
    [ MessageID |-> mid, From |-> from, Subject |-> subject, Date |-> date,
      ListUnsubscribe |-> header,
      parts |-> IF html = <<>> THEN <<[ctype |-> "text/plain", payload |-> <<>>]>>
                ELSE <<[ctype |-> "text/html", payload |-> html]>> ]

GoodDate == "Mon, 02 Nov 2026 10:00:00 +0000"

ShopLink == "https://shop.example/unsub?id=42"

\* Messages that differ in their unsubscribe signals: the List-Unsubscribe
\* header absent, with a mailto only, with a mailto and a link, or with a
\* link only, and up to MaxAnchors image anchors (no text), one of them the
\* link of the header.
ExecAnchors ==
    << Anchor("https://shop.example/unsubscribe?id=42", ""),
       Anchor("https://list.example/optout/success", ""),
       Anchor("http://news.example/remove-from-list", "") >>

ExecBodies ==
    {<<>>} \cup { [k \in DOMAIN sel |-> ExecAnchors[sel[k]]] :
                    sel \in {x \in Selections(Len(ExecAnchors)) : Len(x) <= MaxAnchors} }

ExecMessages ==
    { Message("<m1@shop.example>", "Deals <promo@shop.example>",
              "50% off - unsubscribe anytime", GoodDate, header, html) :
        header \in { None, "<mailto:unsub@shop.example>",
                     "<mailto:unsub@shop.example>, <https://shop.example/unsubscribe?id=42>",
                     "<https://shop.example/unsubscribe?id=42>" },
        html \in ExecBodies }

\* Messages of two senders, without a Message-ID or sharing one, whose only
\* signal is the mailto of their header, and one message with a mailto and
\* a link.
BatchMessages ==
    { Message(mid, from, "Weekly deals", GoodDate, "<mailto:unsub@shop.example>", <<>>) :
        mid \in {None, "<m1@shop.example>"},
        from \in {"Deals <promo@shop.example>", "news@list.example"} }
    \cup { Message("<m2@list.example>", "news@list.example", "Weekly deals", GoodDate,
                   "<mailto:leave@list.example>, <https://list.example/unsubscribe>",
                   <<>>) }

\* Messages that differ in what the confidence score reads: the sender, the
\* subject, the header, the text and up to MaxNodes anchors and buttons.
ScoreTexts ==
    { "Hello from the shop. ",
      "To opt-out or unsubscribe, manage your preferences. ",
      "Unsubscribe, opt out, cancel subscription, email settings, leave list. " }

ScoreNodes ==
    { Anchor(ShopLink, "Unsubscribe"),
      Anchor("mailto:leave@shop.example", "unsubscribe"),
      Button("window.location='https://shop.example/optout'", "Opt out") }

ScoreMessages ==
    { Message("<m1@shop.example>", from, subject, GoodDate, header, html) :
        from \in {"News <noreply@newsletter.example>", "Alice <alice@example.org>"},
        subject \in {"50% off - unsubscribe anytime", "Manage your preferences", None},
        header \in { None, "<mailto:unsub@shop.example>",
                     "<mailto:unsub@shop.example>, <https://shop.example/unsub?id=42>",
                     "<https://shop.example/unsub?id=42>, <http://shop.example/optout>" },
        html \in {<<>>} \cup {<<TextNode(t)>> \o ns :
                                t \in ScoreTexts, ns \in SeqsUpTo(ScoreNodes, MaxNodes)} }

\* Messages with a link in their header and up to MaxAnchors more in their
\* body
RerunMessages ==
    {msg \in ExecMessages : msg.ListUnsubscribe = "<https://shop.example/unsubscribe?id=42>"}

\* What the five searches may return from a mailbox of MaxMailbox messages:
\* any ids for the first, and for the last none, the first message or the
\* last one, so that an id may be returned twice.
SearchData ==
    {<<a, {}, {}, {}, b>> : a \in SUBSET (1..MaxMailbox),
                            b \in {{}, {1}, {MaxMailbox}}}

\* The messages of that mailbox
SearchMessages == {msg \in BatchMessages : msg.MessageID = "<m1@shop.example>"}

\* s repeated n times
RECURSIVE Repeat(_, _)
Repeat(s, n) == IF n = 0 THEN "" ELSE s \o Repeat(s, n - 1)

\* Messages that differ in the length of their body text: short, ending
\* with three dots of its own, of exactly 200 characters, of 201, and longer
\* than the 500 characters extract_text_preview keeps.
PreviewTexts ==
    { "Hello from the shop.",
      "New arrivals this week. Read more...",
      Repeat("Fresh news. ", 16) \o "See you.",
      Repeat("Fresh news. ", 16) \o "See you!!",
      Repeat("Fresh news. ", 50) }

PreviewMessages ==
    { Message("<m1@shop.example>", "Alice <alice@example.org>", "Weekly news", GoodDate,
              "<mailto:unsub@shop.example>", html) :
        html \in {<<>>} \cup {<<TextNode(t)>> : t \in PreviewTexts} }

-----------------------------------------------------------------------------
(* The operators of the executor, tabulated once on the candidates, links  *)
(* and outcome texts the messages above can produce: the actions read the  *)
(* tables, which are the operators' graphs.                                *)

KnownInfos == UNION {Analyses(msg) : msg \in ExecMessages \cup BatchMessages}

KnownLinks == UNION {Range(info.unsubscribe_links) : info \in KnownInfos}

CrashMessages == {r.msg : r \in {x \in Responses : x.kind = "crash"}}

LinkResultTable ==
    [link \in KnownLinks, response \in {x \in Responses : x.kind # "crash"} |->
        unsubscribe_via_link(link, response)]

OutcomeTexts ==
    {LinkResultTable[a] : a \in DOMAIN LinkResultTable}
    \cup {"Error: " \o e : e \in CrashMessages \cup DbErrors}
    \cup {unsubscribe_via_email(info.unsubscribe_email) :
            info \in {x \in KnownInfos : Truthy(x.unsubscribe_email)}}

SuccessTable == [text \in OutcomeTexts |-> SignalsSuccess(text)]

-----------------------------------------------------------------------------
(* The application: one analysis run (MailMute.analyze_emails) followed by *)
(* one unsubscribe pass (MailMute.perform_unsubscribe) over a selection.   *)

VARIABLES
    confidence_threshold,  \* MailMute.confidence_threshold, in hundredths
    pc,                    \* where the worker stands
    limit_var,             \* MailMute.limit_var
    search_data,           \* analyze_emails: the ids each search returned
    email_ids,             \* analyze_emails: its local email_ids
    todo,                  \* how many of email_ids are still to be fetched
    fetched,               \* the messages mail.fetch returned in this run, in order
    analyzed,              \* what analyze_email_content returned for them
    unsubscribe_infos,     \* MailMute.unsubscribe_infos
    sender_stats,          \* table sender_stats
    history,               \* table unsubscribe_history
    next_id,               \* the next AUTOINCREMENT id of unsubscribe_history
    selected_items,        \* perform_unsubscribe: the selected rows, as indexes
    item,                  \* perform_unsubscribe: the position in selected_items
    current,               \* perform_unsubscribe: its local unsubscribe_info, as an
                           \* index into unsubscribe_infos (0: not yet bound)
    results,               \* unsubscribe: the dict results
    link_i,                \* unsubscribe: the loop index i
    call,                  \* the latest unsubscribe call: none, running, returned, raised
    attempts,              \* the strategies that call has tried, in order: what was
                           \* asked, what came back, whether the history took it
    batch_results,         \* perform_unsubscribe: the list results
    successful_count,      \* perform_unsubscribe: successful_count
    set_orders,            \* the enumeration list(set(...)) gave, in this process,
                           \* for each list of links it was applied to
    first_seen,            \* for each message ever analysed, what its first
                           \* analysis returned
    restarts,              \* how often the application was started again
    analyze_button,        \* state of MailMute.analyze_button
    unsubscribe_button,    \* state of MailMute.unsubscribe_button
    tree,                  \* MailMute.tree: its rows and how often it was refilled
    status_var,            \* MailMute.status_var
    after_queue,           \* the callbacks handed to self.after(0, ...), oldest first
    threads,               \* the worker threads started so far
    runs,                  \* how many worker threads were started
    results_windows        \* how many result windows are open

ui_vars == << analyze_button, unsubscribe_button, tree, status_var, after_queue,
              threads, runs, results_windows >>

vars == << ui_vars, confidence_threshold, limit_var, pc, search_data, email_ids, todo, fetched, analyzed, unsubscribe_infos,
           sender_stats, history, next_id, selected_items, item, current, results,
           link_i, call, attempts, batch_results, successful_count,
           set_orders, first_seen, restarts >>

run_vars == <<search_data, email_ids>>
analysis_vars == <<todo, fetched, analyzed, unsubscribe_infos, sender_stats,
                   set_orders, first_seen>>
pass_vars == <<selected_items, item, current, batch_results, successful_count>>
call_vars == <<results, link_i, call, attempts>>

\* A dict without keys, and d with d[key] = value when key is new to it
EmptyMap == [x \in {} |-> x]

MapPut(d, key, value) ==
    IF key \in DOMAIN d THEN d
    ELSE [x \in DOMAIN d \cup {key} |-> IF x = key THEN value ELSE d[x]]

\* The positions of the confidence scale (0.1 to 1.0) the model tries: its
\* lowest and its default.
Thresholds == {10, 50}

\* The values of the email limit the model tries: two small ones, typed
\* into the spinbox, and the default.
Limits == {1, 2, 50}

\* A worker thread: which method it runs (kind "none": not started, "done":
\* it has returned), where it stands, and its locals.  Of analyze_emails:
\* total = len(email_ids), i = the turns of its loop so far, failed = the
\* turns in which the fetch or the analysis raised.  Of perform_unsubscribe:
\* selected_items, i, results, successful_count and sender, the sender of
\* its local unsubscribe_info (None while unbound).
Thread(kind, at) ==
    [ kind |-> kind, at |-> at, total |-> 0, i |-> 0, failed |-> {},
      selected_items |-> <<>>, results |-> <<>>, successful_count |-> 0,
      sender |-> None ]

\* ttk.Treeview without rows.  An item id is <<gen, k>>: row k of the gen-th
\* filling of the tree.
EmptyTree == [gen |-> 0, rows |-> <<>>]

InitWith(thresholds, limits) ==
    /\ analyze_button = "normal"
    /\ unsubscribe_button = "disabled"
    /\ tree = EmptyTree
    /\ status_var = "Ready to analyze your emails"
    /\ after_queue = <<>>
    /\ threads = [k \in 1..MaxRuns |-> Thread("none", "")]
    /\ runs = 0
    /\ results_windows = 0
    /\ confidence_threshold \in thresholds
    /\ limit_var \in limits
    /\ pc = "ready"
    /\ search_data = <<>>
    /\ email_ids = <<>>
    /\ todo = 0
    /\ fetched = <<>>
    /\ analyzed = <<>>
    /\ unsubscribe_infos = <<>>
    /\ sender_stats = <<>>
    /\ history = <<>>
    /\ next_id = 1
    /\ selected_items = <<>>
    /\ item = 0
    /\ current = 0
    /\ results = <<>>
    /\ link_i = 0
    /\ call = "none"
    /\ attempts = <<>>
    /\ batch_results = <<>>
    /\ successful_count = 0
    /\ set_orders = EmptyMap
    /\ first_seen = EmptyMap
    /\ restarts = 0

Init == InitWith({50}, {50})

InitAny == InitWith(Thresholds, {50})

InitLimit == InitWith({50}, Limits)

\* list[:n]
WholeList(list, n) == list

Slice(list, n) ==
    IF n >= 0 THEN SubSeq(list, 1, Min(n, Len(list)))
    ELSE SubSeq(list, 1, Len(list) + n)

\* The searches return the ids 1..n, all by the first criterion
Found(n) == <<1..n, {}, {}, {}, {}>>

\* analyze_emails up to its loop: the server is reached, the search for
\* criterion k returns the ids search_data[k] (none when it fails), and
\* some message is left to analyse.
StartAnalysis(data) ==
    /\ pc = "ready"
    /\ pc' = "analyze"
    /\ search_data' = data
    /\ \E listing \in ListsOf(UNION {data[k] : k \in 1..Len(data)}) :
          email_ids' = Slice(listing, limit_var)
    /\ email_ids' # <<>>
    /\ todo' = Len(email_ids')
    /\ fetched' = <<>>
    /\ analyzed' = <<>>
    /\ unsubscribe_infos' = <<>>
    /\ UNCHANGED <<ui_vars, confidence_threshold, limit_var, restarts, sender_stats, history, next_id>>
    /\ UNCHANGED <<set_orders, first_seen>>
    /\ UNCHANGED <<pass_vars, call_vars>>

\* confidence_score > self.confidence_threshold.get()
PassesStrictly(confidence_score, threshold) == confidence_score > threshold

\* confidence_score >= self.confidence_threshold.get()
Passes(confidence_score, threshold) == confidence_score >= threshold

\* What list(set(links)) gives in a process where it gave orders: the same
\* list for the same links inserted in the same order, any enumeration the
\* first time (the order follows the string hashes, seeded per process).
Enumerations(orders, links) ==
    IF links \in DOMAIN orders THEN {orders[links]} ELSE ListOfSet(links)

\* One turn of the loop of analyze_emails, on the fetched message msg.  A
\* failing update_sender_stats is caught by the loop's handler, after the
\* candidate was appended.
AnalyzeEmail(msg) ==
    /\ pc = "analyze"
    /\ todo > 0
    /\ fetched' = Append(fetched, msg)
    /\ \E found \in {ExtractedLinks(msg)}, db_ok \in BOOLEAN :
       \E unsubscribe_links \in Enumerations(set_orders, found) :
       \E info \in {analyze_email_content(msg, unsubscribe_links)} :
          /\ set_orders' = MapPut(set_orders, found, unsubscribe_links)
          /\ first_seen' = MapPut(first_seen, msg, info)
          /\ analyzed' = Append(analyzed, info)
          /\ IF Passes(info.confidence_score, confidence_threshold)
             THEN /\ unsubscribe_infos' = Append(unsubscribe_infos, info)
                  /\ sender_stats' = IF db_ok
                                     THEN update_sender_stats(sender_stats, info.sender)
                                     ELSE sender_stats
             ELSE UNCHANGED <<unsubscribe_infos, sender_stats>>
    /\ todo' = todo - 1
    /\ UNCHANGED run_vars
    /\ UNCHANGED <<ui_vars, confidence_threshold, limit_var, restarts, pc, history, next_id>>
    /\ UNCHANGED <<pass_vars, call_vars>>

\* analyze_emails after its loop
FinishAnalysis ==
    /\ pc = "analyze"
    /\ todo = 0
    /\ pc' = "review"
    /\ search_data' = <<>>
    /\ email_ids' = <<>>
    /\ UNCHANGED <<ui_vars, confidence_threshold, limit_var, restarts, history, next_id>>
    /\ UNCHANGED <<analysis_vars, pass_vars, call_vars>>

\* start_unsubscribe, confirmed
StartUnsubscribe ==
    /\ pc = "review"
    /\ unsubscribe_infos # <<>>
    /\ selected_items' \in Selections(Len(unsubscribe_infos))
    /\ item' = 1
    /\ batch_results' = <<>>
    /\ successful_count' = 0
    /\ pc' = "item"
    /\ UNCHANGED <<ui_vars, confidence_threshold, limit_var, restarts, history, next_id, current>>
    /\ UNCHANGED <<run_vars, analysis_vars, call_vars>>

\* The candidate perform_unsubscribe is working on, or worked on last
Current == unsubscribe_infos[current]

\* except Exception in perform_unsubscribe
ErrorEntry(info, msg) ==
    [sender |-> info.sender, success |-> FALSE, details |-> "Error: " \o msg]

\* How a request ended: by which exception, or with which kind of status
Ended(response) ==
    IF response.kind # "http" THEN response.kind
    ELSE IF response.status_code = 200 THEN "200" ELSE "non-200"

\* One strategy tried by unsubscribe: what it addressed, how its request
\* ended ("none": no request), the text it returned (None: it raised) and
\* whether record_unsubscribe stored it
Attempt(strategy, target, ended, result, stored) ==
    [ strategy |-> strategy, target |-> target, ended |-> ended,
      result |-> result, stored |-> stored ]

\* perform_unsubscribe takes the next item and calls unsubscribe, which runs
\* its email strategy.  An exception of record_unsubscribe leaves
\* unsubscribe here and is handled by perform_unsubscribe.
BeginUnsubscribe ==
    /\ pc = "item"
    /\ item <= Len(selected_items)
    /\ current' = selected_items[item]
    /\ link_i' = 0
    /\ LET info == unsubscribe_infos[selected_items[item]]
       IN  IF Truthy(info.list_unsubscribe_header) /\ Truthy(info.unsubscribe_email)
           THEN LET result == unsubscribe_via_email(info.unsubscribe_email)
                IN  /\ results' = DictSet(<<>>, "email", result)
                    /\ \/ /\ history' = record_unsubscribe(history, next_id, info,
                                                           result, "email", "")
                          /\ next_id' = next_id + 1
                          /\ attempts' = <<Attempt("email", info.unsubscribe_email,
                                                   "none", result, TRUE)>>
                          /\ call' = "running"
                          /\ pc' = "links"
                          /\ UNCHANGED <<item, batch_results>>
                       \/ \E e \in DbErrors :
                          /\ attempts' = <<Attempt("email", info.unsubscribe_email,
                                                   "none", result, FALSE)>>
                          /\ call' = "raised"
                          /\ batch_results' = Append(batch_results, ErrorEntry(info, e))
                          /\ item' = item + 1
                          /\ pc' = "item"
                          /\ UNCHANGED <<history, next_id>>
           ELSE /\ results' = <<>>
                /\ attempts' = <<>>
                /\ call' = "running"
                /\ pc' = "links"
                /\ UNCHANGED <<history, next_id, item, batch_results>>
    /\ UNCHANGED <<ui_vars, confidence_threshold, limit_var, restarts, selected_items, successful_count>>
    /\ UNCHANGED <<run_vars, analysis_vars>>

\* for i, link in enumerate(unsubscribe_links): the index of the next turn
SameLink(i) == i

NextLink(i) == i + 1

\* f'link_{i + 1}'
LinkKeyFromZero(i) == "link_" \o Str(i)

LinkKey(i) == "link_" \o Str(i + 1)

\* f'web_link_{i + 1}'
LinkMethod(i) == "web_link_" \o Str(i + 1)

\* One turn of the loop of unsubscribe
LinkAttempt ==
    /\ pc = "links"
    /\ link_i < Len(Current.unsubscribe_links)
    /\ LET info == Current
           link == info.unsubscribe_links[link_i + 1]
           key  == LinkKey(link_i)
       IN  \E response \in Responses :
              IF response.kind = "crash"
              THEN /\ results' = DictSet(results, key, "Error: " \o response.msg)
                   /\ attempts' = Append(attempts, Attempt(key, link, Ended(response),
                                                             None, FALSE))
                   /\ link_i' = NextLink(link_i)
                   /\ UNCHANGED <<history, next_id, pc>>
              ELSE LET result == LinkResultTable[link, response]
                   IN  \/ /\ results' = DictSet(results, key, result)
                          /\ history' = record_unsubscribe(history, next_id, info, result,
                                                           LinkMethod(link_i), link)
                          /\ next_id' = next_id + 1
                          /\ attempts' = Append(attempts,
                                                Attempt(key, link, Ended(response), result, TRUE))
                          /\ IF SuccessTable[result]
                             THEN pc' = "return" /\ UNCHANGED link_i
                             ELSE link_i' = NextLink(link_i) /\ UNCHANGED pc
                       \/ \E e \in DbErrors :
                          /\ results' = DictSet(DictSet(results, key, result),
                                                key, "Error: " \o e)
                          /\ attempts' = Append(attempts,
                                                Attempt(key, link, Ended(response), result, FALSE))
                          /\ link_i' = NextLink(link_i)
                          /\ UNCHANGED <<history, next_id, pc>>
    /\ UNCHANGED <<ui_vars, confidence_threshold, limit_var, restarts, call>>
    /\ UNCHANGED <<run_vars, analysis_vars, pass_vars>>

\* '\n'.join(f"  {method}: {outcome}" for method, outcome in result.items())
RECURSIVE Summary(_)
Summary(d) ==
    IF d = <<>> THEN ""
    ELSE "  " \o Head(d).key \o ": " \o Head(d).value
         \o (IF Len(d) > 1 THEN "\n" ELSE "") \o Summary(Tail(d))

\* any('success' in str(r).lower() for r in result.values())
AnySuccess(d) == \E k \in 1..Len(d) : SuccessTable[d[k].value]

\* Every processed item counted as a success
CountAll(success, count) == count + 1

\* if success: successful_count += 1
Counted(success, count) == IF success THEN count + 1 ELSE count

\* unsubscribe returns its results and perform_unsubscribe files them
ReturnResults ==
    /\ \/ pc = "return"
       \/ pc = "links" /\ link_i >= Len(Current.unsubscribe_links)
    /\ call' = "returned"
    /\ successful_count' = Counted(AnySuccess(results), successful_count)
    /\ batch_results' = Append(batch_results,
                               [sender |-> Current.sender, success |-> AnySuccess(results),
                                details |-> Summary(results)])
    /\ item' = item + 1
    /\ pc' = "item"
    /\ UNCHANGED <<ui_vars, confidence_threshold, limit_var, restarts, history, next_id, selected_items, current,
                   results, link_i, attempts>>
    /\ UNCHANGED <<run_vars, analysis_vars>>

\* perform_unsubscribe after its loop
FinishUnsubscribe ==
    /\ pc = "item"
    /\ item > Len(selected_items)
    /\ pc' = "finished"
    /\ UNCHANGED <<ui_vars, confidence_threshold, limit_var, restarts, history, next_id>>
    /\ UNCHANGED <<run_vars, analysis_vars, pass_vars, call_vars>>

Pass ==
    \/ FinishAnalysis
    \/ StartUnsubscribe
    \/ BeginUnsubscribe
    \/ LinkAttempt
    \/ ReturnResults
    \/ FinishUnsubscribe

\* One message with any mix of signals, executed with every response
Next ==
    \/ StartAnalysis(Found(1))
    \/ \E msg \in ExecMessages : AnalyzeEmail(msg)
    \/ Pass

Spec == Init /\ [][Next]_vars

\* Up to MaxEmails messages of several senders and identifiers
NextBatch ==
    \/ \E n \in 1..MaxEmails : StartAnalysis(Found(n))
    \/ \E msg \in BatchMessages : AnalyzeEmail(msg)
    \/ Pass

SpecBatch == InitAny /\ [][NextBatch]_vars

\* The analysis of one message
NextScore ==
    \/ StartAnalysis(Found(1))
    \/ \E msg \in ScoreMessages : AnalyzeEmail(msg)

SpecScore == Init /\ [][NextScore]_vars

\* The pages a link may answer with: a body with or without a success
\* phrase, followed by the forms of the page
RECURSIVE FormsHtml(_)
FormsHtml(forms) ==
    IF forms = <<>> THEN ""
    ELSE "<form>" \o Head(forms) \o "</form>" \o FormsHtml(Tail(forms))

LinkBodies ==
    { "<p>Welcome back to our shop</p>",
      "<p>You have been Successfully Unsubscribed.</p>",
      "<p>You were removed from list.</p>",
      "<h1>Unsubscribe Successful</h1>",
      "<p>Email preferences updated</p>",
      "<p>Subscription cancelled</p>" }

LinkForms ==
    { <<>>, <<"Search">>, <<"Unsubscribe me">>, <<"Remove my address">>, <<"OPT OUT">>,
      <<"Search", "Please confirm: unsubscribe">> }

LinkPages == {Page(body \o FormsHtml(forms), forms) : body \in LinkBodies, forms \in LinkForms}

LinkResponses ==
    {[kind |-> "timeout"]}
    \cup {[kind |-> "error", msg |-> "Connection refused"]}
    \cup {[kind |-> "crash", msg |-> "label empty or too long"]}
    \cup {[kind |-> "http", status_code |-> code, page |-> pg] :
             code \in {404, 500},
             pg \in {Page("", <<>>),
                     Page("<p>You have been Successfully Unsubscribed.</p>", <<>>)}}
    \cup {[kind |-> "http", status_code |-> 200, page |-> pg] : pg \in LinkPages}

LinkTargets ==
    {ShopLink, "https://list.example/unsubscribe", "https://list.example/optout/success"}

\* unsubscribe_via_link is called on link and the request meets response:
\* what it returns (None when an exception leaves it).  The attempt keeps
\* the whole response in its field ended.
VisitLink(link, response) ==
    /\ attempts' = <<Attempt(LinkKey(0), link, response,
                             IF response.kind = "crash" THEN None
                             ELSE unsubscribe_via_link(link, response),
                             FALSE)>>
    /\ UNCHANGED <<ui_vars, confidence_threshold, limit_var, restarts, pc, history, next_id>>
    /\ UNCHANGED <<run_vars, analysis_vars, pass_vars>>
    /\ UNCHANGED <<results, link_i, call>>

NextLinkCall == \E link \in LinkTargets, response \in LinkResponses : VisitLink(link, response)

SpecLink == Init /\ [][NextLinkCall]_vars

\* The window is closed and the program is started again: a new process,
\* with the database file the old one left.
Restart ==
    /\ restarts < MaxRestarts
    /\ restarts' = restarts + 1
    /\ confidence_threshold' = 50
    /\ limit_var' = 50
    /\ pc' = "ready"
    /\ search_data' = <<>>
    /\ email_ids' = <<>>
    /\ todo' = 0
    /\ fetched' = <<>>
    /\ analyzed' = <<>>
    /\ unsubscribe_infos' = <<>>
    /\ selected_items' = <<>>
    /\ item' = 0
    /\ current' = 0
    /\ results' = <<>>
    /\ link_i' = 0
    /\ call' = "none"
    /\ attempts' = <<>>
    /\ batch_results' = <<>>
    /\ successful_count' = 0
    /\ set_orders' = EmptyMap
    /\ analyze_button' = "normal"
    /\ unsubscribe_button' = "disabled"
    /\ tree' = EmptyTree
    /\ status_var' = "Ready to analyze your emails"
    /\ after_queue' = <<>>
    /\ threads' = [k \in 1..MaxRuns |-> Thread("none", "")]
    /\ runs' = 0
    /\ results_windows' = 0
    /\ UNCHANGED <<sender_stats, history, next_id, first_seen>>

\* The analysis of one message, in up to MaxRestarts + 1 runs of the program
NextRerun ==
    \/ StartAnalysis(Found(1))
    \/ \E msg \in RerunMessages : AnalyzeEmail(msg)
    \/ FinishAnalysis
    \/ Restart

SpecRerun == Init /\ [][NextRerun]_vars

\* The analysis of what the searches return, under several email limits
NextSearch ==
    \/ \E data \in SearchData : StartAnalysis(data)
    \/ \E msg \in SearchMessages : AnalyzeEmail(msg)
    \/ FinishAnalysis

SpecSearch == InitLimit /\ [][NextSearch]_vars

\* The analysis of up to MaxEmails messages with bodies of several lengths
NextPreview ==
    \/ \E n \in 1..MaxEmails : StartAnalysis(Found(n))
    \/ \E msg \in PreviewMessages : AnalyzeEmail(msg)
    \/ FinishAnalysis

SpecPreview == Init /\ [][NextPreview]_vars

-----------------------------------------------------------------------------
(* The window and its worker threads.  The main thread runs the handlers   *)
(* of the buttons and the callbacks handed to self.after, one at a time;   *)
(* every worker thread runs analyze_emails or perform_unsubscribe and      *)
(* interleaves with the main thread and with the other workers between     *)
(* two accesses to the state they share.  The main loop runs the callbacks *)
(* that are due before it turns to a click that comes later, so a click is *)
(* handled when no callback is waiting.  Message boxes change no state and *)
(* are left out, their questions are answered at once; the credentials are *)
(* filled in.                                                              *)

\* The mailbox of these runs: messages with a mailto and a link
UIMessages ==
    { Message("<m2@list.example>", "news@list.example", "Weekly deals", GoodDate,
              "<mailto:leave@list.example>, <https://list.example/unsubscribe>", <<>>) }

\* A mailbox with the messages of two senders
StatsMessages ==
    UIMessages
    \cup { Message("<m1@shop.example>", "Deals <promo@shop.example>", "Weekly deals",
                   GoodDate,
                   "<mailto:leave@list.example>, <https://list.example/unsubscribe>",
                   <<>>) }

\* How many ids the searches of these runs find
UIFound == {0, 1}

\* analyze_email_content on these messages
AnalysesTable == [msg \in StatsMessages |-> Analyses(msg)]

\* What a request of these runs meets: a timeout, or a page that confirms
UIResponses ==
    {r \in Responses :
        \/ r.kind = "timeout"
        \/ r.kind = "http" /\ r.status_code = 200
                           /\ check_unsubscribe_success(r.page.text)}

\* The loop of SmartUnsubscriber.unsubscribe from link i on: the ways it
\* can end, as the dict results and the history table it leaves
RECURSIVE LinkLoop(_, _, _)
LinkLoop(info, i, st) ==
    IF i >= Len(info.unsubscribe_links) THEN {st}
    ELSE LET link == info.unsubscribe_links[i + 1]
             key  == LinkKey(i)
             failed(e) == [st EXCEPT !.results = DictSet(st.results, key, "Error: " \o e)]
         IN  UNION {
               IF response.kind = "crash"
               THEN LinkLoop(info, NextLink(i), failed(response.msg))
               ELSE LET result == LinkResultTable[link, response]
                        stored == [st EXCEPT
                                     !.results = DictSet(st.results, key, result),
                                     !.history = record_unsubscribe(st.history, st.next_id, info,
                                                                    result, LinkMethod(i), link),
                                     !.next_id = st.next_id + 1]
                    IN  (IF SuccessTable[result] THEN {stored}
                         ELSE LinkLoop(info, NextLink(i), stored))
                        \cup UNION {LinkLoop(info, NextLink(i), failed(e)) : e \in DbErrors}
               : response \in UIResponses }

\* SmartUnsubscriber.unsubscribe as one call: the ways it can end.  raised
\* is str(e) of the exception that left it, None when it returned.
unsubscribe(info, table, id) ==
    LET st == [results |-> <<>>, history |-> table, next_id |-> id, raised |-> None]
    IN  IF Truthy(info.list_unsubscribe_header) /\ Truthy(info.unsubscribe_email)
        THEN LET result == unsubscribe_via_email(info.unsubscribe_email)
             IN  LinkLoop(info, 0,
                          [st EXCEPT !.results = DictSet(<<>>, "email", result),
                                     !.history = record_unsubscribe(table, id, info, result,
                                                                    "email", ""),
                                     !.next_id = id + 1])
                 \cup {[st EXCEPT !.raised = e] : e \in DbErrors}
        ELSE LinkLoop(info, 0, st)

\* The callbacks are never scheduled
Dropped(queue, callbacks) == queue

\* self.after(0, callback)
After(queue, callbacks) == queue \o callbacks

\* start_analysis: both buttons are disabled and a thread is started
start_analysis ==
    /\ runs < MaxRuns
    /\ runs' = runs + 1
    /\ analyze_button' = "disabled"
    /\ unsubscribe_button' = "disabled"
    /\ threads' = [threads EXCEPT ![runs + 1] = Thread("analyze_emails", "connect")]

\* The Analyze button is clicked
ClickAnalyze ==
    /\ after_queue = <<>>
    /\ analyze_button = "normal"
    /\ start_analysis
    /\ UNCHANGED <<tree, status_var, after_queue, results_windows>>
    /\ UNCHANGED <<confidence_threshold, limit_var, restarts, pc, history, next_id>>
    /\ UNCHANGED <<run_vars, analysis_vars, pass_vars, call_vars>>

\* Refresh Analysis is clicked in a result window:
\* [results_window.destroy(), self.start_analysis()]
ClickRefresh ==
    /\ after_queue = <<>>
    /\ results_windows > 0
    /\ results_windows' = results_windows - 1
    /\ start_analysis
    /\ UNCHANGED <<tree, status_var, after_queue>>
    /\ UNCHANGED <<confidence_threshold, limit_var, restarts, pc, history, next_id>>
    /\ UNCHANGED <<run_vars, analysis_vars, pass_vars, call_vars>>

\* Close is clicked in a result window
CloseResults ==
    /\ after_queue = <<>>
    /\ results_windows > 0
    /\ results_windows' = results_windows - 1
    /\ UNCHANGED <<analyze_button, unsubscribe_button, tree, status_var, after_queue,
                   threads, runs>>
    /\ UNCHANGED <<confidence_threshold, limit_var, restarts, pc, history, next_id>>
    /\ UNCHANGED <<run_vars, analysis_vars, pass_vars, call_vars>>

\* tree.selection(), or tree.get_children() when no row is selected: item ids
TreeSelections ==
    IF tree.rows = <<>> THEN {<<>>}
    ELSE {[k \in 1..Len(sel) |-> <<tree.gen, sel[k]>>] : sel \in Selections(Len(tree.rows))}

\* The Smart Unsubscribe button is clicked and the questions are answered
\* with yes: start_unsubscribe
ClickUnsubscribe ==
    /\ after_queue = <<>>
    /\ unsubscribe_button = "normal"
    /\ unsubscribe_infos # <<>>
    /\ runs < MaxRuns
    /\ runs' = runs + 1
    /\ \E selection \in TreeSelections :
          threads' = [threads EXCEPT ![runs + 1] =
                         [Thread("perform_unsubscribe", "loop") EXCEPT
                             !.selected_items = selection]]
    /\ unsubscribe_button' = "disabled"
    /\ analyze_button' = "disabled"
    /\ UNCHANGED <<tree, status_var, after_queue, results_windows>>
    /\ UNCHANGED <<confidence_threshold, limit_var, restarts, pc, history, next_id>>
    /\ UNCHANGED <<run_vars, analysis_vars, pass_vars, call_vars>>

\* update_results_display: the rows are deleted and one row per candidate
\* of the store is inserted
update_results_display(store) == [gen |-> tree.gen + 1, rows |-> store]

\* The main loop runs the oldest callback
RunCallback ==
    /\ after_queue # <<>>
    /\ after_queue' = Tail(after_queue)
    /\ LET callback == Head(after_queue)
       IN  /\ tree' = IF callback = "update_results_display"
                      THEN update_results_display(unsubscribe_infos) ELSE tree
           /\ unsubscribe_button' = IF callback = "enable unsubscribe_button"
                                    THEN "normal" ELSE unsubscribe_button
           /\ analyze_button' = IF callback = "enable analyze_button"
                                THEN "normal" ELSE analyze_button
           /\ results_windows' = IF callback = "show_unsubscribe_results"
                                 THEN results_windows + 1 ELSE results_windows
    /\ UNCHANGED <<status_var, threads, runs>>
    /\ UNCHANGED <<confidence_threshold, limit_var, restarts, pc, history, next_id>>
    /\ UNCHANGED <<run_vars, analysis_vars, pass_vars, call_vars>>

\* What a worker leaves alone whatever it does
WorkerFrame ==
    /\ UNCHANGED <<analyze_button, unsubscribe_button, tree, runs, results_windows>>
    /\ UNCHANGED <<confidence_threshold, limit_var, restarts, pc>>
    /\ UNCHANGED <<run_vars, pass_vars, call_vars>>
    /\ UNCHANGED <<todo, fetched, analyzed, set_orders, first_seen>>

\* analyze_emails, connect_to_email_server: the server is reached, or it is
\* not (an imaplib error or another exception) and the run returns
Connect(t) ==
    /\ threads[t].kind = "analyze_emails"
    /\ threads[t].at = "connect"
    /\ \/ /\ threads' = [threads EXCEPT ![t].at = "search"]
          /\ status_var' = "Searching for marketing emails..."
          /\ UNCHANGED after_queue
       \/ /\ threads' = [threads EXCEPT ![t] = Thread("done", "")]
          /\ status_var' = "Connection failed"
          /\ after_queue' = After(after_queue, <<"enable analyze_button">>)
    /\ UNCHANGED <<unsubscribe_infos, sender_stats, history, next_id>>
    /\ WorkerFrame

\* analyze_emails from its searches to its loop: n ids are found
Search(t, n) ==
    /\ threads[t].kind = "analyze_emails"
    /\ threads[t].at = "search"
    /\ LET email_ids_t == Slice([k \in 1..n |-> k], limit_var)
       IN  IF email_ids_t = <<>>
           THEN /\ threads' = [threads EXCEPT ![t] = Thread("done", "")]
                /\ status_var' = "No marketing emails found"
                /\ after_queue' = After(after_queue, <<"enable analyze_button">>)
                /\ UNCHANGED unsubscribe_infos
           ELSE /\ threads' = [threads EXCEPT ![t].at = "loop",
                                              ![t].total = Len(email_ids_t)]
                /\ status_var' = "Analyzing emails with AI..."
                /\ unsubscribe_infos' = <<>>
                /\ UNCHANGED after_queue
    /\ UNCHANGED <<sender_stats, history, next_id>>
    /\ WorkerFrame

\* The loop of analyze_emails after a turn that raised: continue
AbortRun(i, total) == total

Continue(i, total) == i + 1

\* f"Analyzed {i + 1}/{len(email_ids)} emails..."
AnalyzedStatus(n, total) ==
    "Analyzed " \o ToString(n) \o "/" \o ToString(total) \o " emails..."

\* One turn of the loop of analyze_emails over a mailbox of messages: the
\* fetch or the analysis raises, or the message msg is analysed; update_sender_stats may raise after the
\* candidate was appended
Fetch(t, messages) ==
    /\ threads[t].kind = "analyze_emails"
    /\ threads[t].at = "loop"
    /\ threads[t].i < threads[t].total
    /\ \/ /\ threads' = [threads EXCEPT ![t].i = Continue(@, threads[t].total),
                                         ![t].failed = @ \cup {threads[t].i + 1}]
          /\ UNCHANGED <<status_var, unsubscribe_infos, sender_stats>>
       \/ \E msg \in messages : \E info \in AnalysesTable[msg] :
          IF Passes(info.confidence_score, confidence_threshold)
          THEN /\ unsubscribe_infos' = Append(unsubscribe_infos, info)
               /\ \/ /\ sender_stats' = update_sender_stats(sender_stats, info.sender)
                     /\ status_var' = AnalyzedStatus(threads[t].i + 1, threads[t].total)
                     /\ threads' = [threads EXCEPT ![t].i = @ + 1]
                  \/ /\ UNCHANGED <<sender_stats, status_var>>
                     /\ threads' = [threads EXCEPT ![t].i = Continue(@, threads[t].total)]
          ELSE /\ status_var' = AnalyzedStatus(threads[t].i + 1, threads[t].total)
               /\ threads' = [threads EXCEPT ![t].i = @ + 1]
               /\ UNCHANGED <<unsubscribe_infos, sender_stats>>
    /\ UNCHANGED <<after_queue, history, next_id>>
    /\ WorkerFrame

\* analyze_emails after its loop: the display is refreshed, and when
\* mail.logout() returns and the store is not empty, the Smart Unsubscribe
\* button is enabled; when it raises, the handler reports the error.  The
\* finally clause enables the Analyze button.
AfterFetch(t) ==
    /\ threads[t].kind = "analyze_emails"
    /\ threads[t].at = "loop"
    /\ threads[t].i >= threads[t].total
    /\ threads' = [threads EXCEPT ![t] = Thread("done", "")]
    /\ \/ /\ status_var' = "Analysis complete!"
          /\ after_queue' = After(after_queue,
                                  <<"update_results_display">>
                                  \o (IF unsubscribe_infos # <<>>
                                      THEN <<"enable unsubscribe_button">> ELSE <<>>)
                                  \o <<"enable analyze_button">>)
       \/ /\ status_var' = "Error:"
          /\ after_queue' = After(after_queue,
                                  <<"update_results_display", "enable analyze_button">>)
    /\ UNCHANGED <<unsubscribe_infos, sender_stats, history, next_id>>
    /\ WorkerFrame

\* The entry perform_unsubscribe appends after unsubscribe returned
ResultEntry(sender, result) ==
    [sender |-> sender, success |-> AnySuccess(result), details |-> Summary(result)]

\* The entry its except handler appends
ExceptEntry(sender, e) ==
    [sender |-> IF sender = None THEN "Unknown" ELSE sender, success |-> FALSE,
     details |-> "Error: " \o e]

\* One turn of the loop of perform_unsubscribe.  tree.index raises for an
\* item that was deleted, unsubscribe_infos[item_index] for an index the
\* store does not have.
UnsubscribeItem(t) ==
    /\ threads[t].kind = "perform_unsubscribe"
    /\ threads[t].i < Len(threads[t].selected_items)
    /\ LET th   == threads[t]
           item_t == th.selected_items[th.i + 1]
       IN  IF item_t[1] # tree.gen
           THEN /\ threads' = [threads EXCEPT
                      ![t].i = @ + 1,
                      ![t].results = Append(@, ExceptEntry(th.sender, "Item not found"))]
                /\ UNCHANGED <<status_var, history, next_id>>
           ELSE IF item_t[2] > Len(unsubscribe_infos)
           THEN /\ threads' = [threads EXCEPT
                      ![t].i = @ + 1,
                      ![t].results = Append(@, ExceptEntry(th.sender,
                                                           "list index out of range"))]
                /\ UNCHANGED <<status_var, history, next_id>>
           ELSE LET info == unsubscribe_infos[item_t[2]]
                IN  /\ status_var' = "Unsubscribing from"
                    /\ \E ended \in unsubscribe(info, history, next_id) :
                          /\ history' = ended.history
                          /\ next_id' = ended.next_id
                          /\ threads' = [threads EXCEPT
                                ![t].i = @ + 1,
                                ![t].sender = info.sender,
                                ![t].successful_count =
                                    IF ended.raised = None
                                    THEN Counted(AnySuccess(ended.results), @) ELSE @,
                                ![t].results =
                                    Append(@, IF ended.raised = None
                                              THEN ResultEntry(info.sender, ended.results)
                                              ELSE ExceptEntry(info.sender, ended.raised))]
    /\ UNCHANGED <<after_queue, unsubscribe_infos, sender_stats>>
    /\ WorkerFrame

\* perform_unsubscribe after its loop
AfterUnsubscribe(t) ==
    /\ threads[t].kind = "perform_unsubscribe"
    /\ threads[t].i >= Len(threads[t].selected_items)
    /\ threads' = [threads EXCEPT ![t] = Thread("done", "")]
    /\ status_var' = "Unsubscribe process completed:"
    /\ after_queue' = After(after_queue, <<"show_unsubscribe_results",
                                           "enable analyze_button",
                                           "enable unsubscribe_button">>)
    /\ UNCHANGED <<unsubscribe_infos, sender_stats, history, next_id>>
    /\ WorkerFrame

\* A step of worker thread t
Worker(t) ==
    \/ Connect(t)
    \/ \E n \in UIFound : Search(t, n)
    \/ Fetch(t, UIMessages)
    \/ AfterFetch(t)
    \/ UnsubscribeItem(t)
    \/ AfterUnsubscribe(t)

\* A step of the main thread
MainLoop ==
    \/ ClickAnalyze
    \/ ClickRefresh
    \/ CloseResults
    \/ ClickUnsubscribe
    \/ RunCallback

NextUI ==
    \/ MainLoop
    \/ \E t \in 1..MaxRuns : Worker(t)

SpecUI == Init /\ [][NextUI]_vars

\* The same, with the scheduling the program runs under: the threads and
\* the main loop are scheduled by the system, so while a worker thread can
\* take a step or a callback waits in the queue, one of them is run in the
\* end (the server and the sites answer or the request fails).
SpecUIFair ==
    /\ SpecUI
    /\ WF_vars(RunCallback \/ \E t \in 1..MaxRuns : Worker(t))

\* The window over the mailbox with two senders
NextStats ==
    \/ MainLoop
    \/ \E t \in 1..MaxRuns :
          \/ Connect(t)
          \/ \E n \in UIFound : Search(t, n)
          \/ Fetch(t, StatsMessages)
          \/ AfterFetch(t)
          \/ UnsubscribeItem(t)
          \/ AfterUnsubscribe(t)

SpecStats == Init /\ [][NextStats]_vars

\* Analysis runs alone, one after the other, over up to MaxEmails messages
NextFetch ==
    \/ ClickAnalyze
    \/ RunCallback
    \/ \E t \in 1..MaxRuns :
          \/ Connect(t)
          \/ \E n \in 0..MaxEmails : Search(t, n)
          \/ Fetch(t, UIMessages)
          \/ AfterFetch(t)

SpecFetch == Init /\ [][NextFetch]_vars

-----------------------------------------------------------------------------
(* Properties.                                                             *)

\* The link attempts of the latest unsubscribe call, in order
LinkAttempts == SelectSeq(attempts, LAMBDA a : a.strategy # "email")

\* The history accepted every write of the latest unsubscribe call
AllStored == \A k \in 1..Len(attempts) : attempts[k].stored

\* C1: short-circuit.  Once a link attempt's outcome signals success, no
\* later link of that candidate is requested and the outcomes end with that
\* attempt; in particular a candidate with no email strategy and 3 links
\* whose first link's response contains a success phrase yields exactly 1
\* outcome.
ShortCircuitOnSuccess ==
    /\ \A k \in 1..Len(attempts) :
          ( /\ attempts[k].strategy # "email"
            /\ attempts[k].result # None
            /\ SuccessTable[attempts[k].result] )
          => /\ k = Len(attempts)
             /\ results[Len(results)] =
                    [key |-> attempts[k].strategy, value |-> attempts[k].result]
    /\ ( /\ call = "returned"
         /\ ~HasKey(results, "email")
         /\ Len(Current.unsubscribe_links) = 3
         /\ attempts[1].ended = "200"
         /\ attempts[1].result = "Successfully unsubscribed via: " \o attempts[1].target )
       => Len(results) = 1

\* C2: execution resilience.  When every link attempt of a candidate with n
\* links ends in a timeout, a transport error or a non-200 status, all n
\* links are attempted, exactly n link outcomes are returned, none of them
\* counts as succeeded, the candidate's overall success is false and no
\* exception escapes (stated here for the calls whose history writes all
\* went through).
ExhaustsFailingLinks ==
    ( /\ call \in {"returned", "raised"}
      /\ AllStored
      /\ \A k \in 1..Len(LinkAttempts) :
            LinkAttempts[k].ended \in {"timeout", "error", "non-200"} )
    => /\ call = "returned"
       /\ Len(LinkAttempts) = Len(Current.unsubscribe_links)
       /\ Cardinality({k \in 1..Len(results) : results[k].key # "email"})
             = Len(Current.unsubscribe_links)
       /\ \A k \in 1..Len(results) :
             results[k].key # "email" => ~SuccessTable[results[k].value]
       /\ ~batch_results[Len(batch_results)].success

\* C3: every confidence score analyze_email_content produces lies in
\* [0.0, 1.0] (0..100 hundredths), whatever the header, the links, the
\* sender, the subject and the content are.
ScoreInRange ==
    \A k \in 1..Len(analyzed) :
        analyzed[k].confidence_score >= 0 /\ analyzed[k].confidence_score <= 100

\* C3, witness: a message whose signals add up to more than 1.0 (header,
\* two or more links, blacklisted sender, matching subject) was scored 1.0.
ScoreWasClamped ==
    \E k \in 1..Len(analyzed) :
        /\ Truthy(analyzed[k].list_unsubscribe_header)
        /\ Len(ExtractedLinks(fetched[k])) >= 2
        /\ \E t \in Range(sender_blacklist) : Contains(Lower(analyzed[k].sender), t)
        /\ Contains(Lower(analyzed[k].subject), "unsubscribe")
        /\ analyzed[k].confidence_score = 100

\* C4: outcome ordering.  The 'email' outcome, when present, comes before
\* every link outcome, and the link outcomes are labelled link_1, link_2,
\* ... link_k without gaps, in the order the links were attempted.
OutcomeOrder ==
    LET off == IF HasKey(results, "email") THEN 1 ELSE 0
    IN  /\ off = 1 => results[1].key = "email"
        /\ Len(results) = off + Len(LinkAttempts)
        /\ \A j \in 1..Len(LinkAttempts) :
              /\ results[off + j].key = "link_" \o Str(j)
              /\ LinkAttempts[j].strategy = results[off + j].key
              /\ LinkAttempts[j].target = Current.unsubscribe_links[j]

\* C4, witness: a call returned an 'email' outcome followed by two or more
\* link outcomes.
OrderedOutcomesReturned ==
    /\ call = "returned"
    /\ HasKey(results, "email")
    /\ Len(results) >= 3

\* C5: every attempt is persisted individually.  After unsubscribe made k
\* attempts for one candidate, the history holds a record for each of them
\* (stated here for the calls whose history writes all went through).
EveryAttemptKept ==
    (call = "returned" /\ AllStored)
    => \A k \in 1..Len(attempts) :
          \E r \in 1..Len(history) :
              /\ history[r].email_id = Current.email_id
              /\ history[r].status = attempts[k].result
              /\ history[r].method = IF attempts[k].strategy = "email" THEN "email"
                                     ELSE "web_" \o attempts[k].strategy

\* C6: history upsert.  After any sequence of record_unsubscribe calls the
\* history holds at most one row per candidate identifier.
OneRowPerIdentifier ==
    \A a, b \in 1..Len(history) :
        history[a].email_id = history[b].email_id => a = b

\* C6, witness: a second record for an identifier replaced the first, so
\* that fewer rows than records exist.
RowWasReplaced ==
    /\ history # <<>>
    /\ next_id - 1 > Len(history)

\* C7: every candidate has a stable, non-empty identifier: the Message-ID
\* when the message has one, otherwise a fallback under which two distinct
\* messages without a Message-ID do not share a history key.
IdentifierNonEmpty ==
    \A a, b \in 1..Len(analyzed) :
        /\ analyzed[a].email_id # ""
        /\ fetched[a].MessageID # None => analyzed[a].email_id = fetched[a].MessageID
        /\ ( /\ fetched[a].MessageID = None
             /\ fetched[b].MessageID = None
             /\ fetched[a] # fetched[b] )
           => analyzed[a].email_id # analyzed[b].email_id

\* C8: at most one attempt per strategy per run.  Within one unsubscribe
\* call each link is requested at most once and the email stub is recorded
\* at most once; no failure is followed by a retry of the same link.
OneAttemptPerStrategy ==
    \A a, b \in 1..Len(attempts) :
        ( /\ (attempts[a].strategy = "email") = (attempts[b].strategy = "email")
          /\ attempts[a].target = attempts[b].target )
        => a = b

\* C8, witness: a call returned after its email stub and two or more link
\* requests, one of which timed out before the last.
FailureNotRetried ==
    /\ call = "returned"
    /\ Len(attempts) >= 3
    /\ attempts[1].strategy = "email"
    /\ \E k \in 2..(Len(attempts) - 1) : attempts[k].ended = "timeout"

\* C9: email strategy stub.  An 'email' outcome is recorded if and only if
\* the candidate has a List-Unsubscribe header and an unsubscribe address;
\* it only states the address a request would be sent to, makes no network
\* request, and never prevents the candidate's links from being attempted
\* afterwards.
EmailStubHarmless ==
    call # "none"
    => LET has_email == /\ Truthy(Current.list_unsubscribe_header)
                        /\ Truthy(Current.unsubscribe_email)
       IN  /\ HasKey(results, "email") <=> has_email
           /\ has_email =>
                 DictGet(results, "email") =
                     "Email unsubscribe request would be sent to: "
                         \o Current.unsubscribe_email
           /\ \A k \in 1..Len(attempts) :
                 attempts[k].strategy = "email" => attempts[k].ended = "none"
           /\ ( /\ call \in {"returned", "raised"}
                /\ has_email
                /\ Current.unsubscribe_links # <<>> )
              => LinkAttempts # <<>>

\* C10: confidence formula.  The score is min(1.0, H + L + S + J + C) with
\* H = 0.4 if a List-Unsubscribe header is present, L = 0.3 + min(numLinks
\* x 0.1, 0.2) if at least one link was found (numLinks: the links found, as
\* handed to calculate_confidence_score), S = 0.1 if the sender contains any
\* blacklist substring, J = 0.1 if the subject matches any of the first 5
\* patterns, C = min(k x 0.05, 0.2) for k patterns matched in the content.
ConfidenceFormula ==
    \A i \in 1..Len(analyzed) :
        LET info     == analyzed[i]
            html     == extract_html_content(fetched[i])
            sender   == Lower(info.sender)
            subject  == Lower(info.subject)
            content  == Lower(IF html # <<>> THEN extract_text_preview(html) ELSE "")
            numLinks == Len(ExtractedLinks(fetched[i]))
            k == Cardinality({n \in 1..Len(unsubscribe_patterns) :
                                 ReSearch(unsubscribe_patterns[n], content)})
            H == IF Truthy(info.list_unsubscribe_header) THEN 40 ELSE 0
            L == IF numLinks >= 1 THEN 30 + Min(numLinks * 10, 20) ELSE 0
            S == IF \E t \in Range(sender_blacklist) : Contains(sender, t)
                 THEN 10 ELSE 0
            J == IF \E n \in 1..5 : ReSearch(unsubscribe_patterns[n], subject)
                 THEN 10 ELSE 0
            C == Min(k * 5, 20)
        IN  info.confidence_score = Min(100, H + L + S + J + C)

\* C10, witness: a sender containing two blacklist substrings was scored
\* below 1.0, where stacking would show.
TwoBlacklistTermsScored ==
    \E i \in 1..Len(analyzed) :
        /\ Cardinality({t \in Range(sender_blacklist) :
                           Contains(Lower(analyzed[i].sender), t)}) >= 2
        /\ analyzed[i].confidence_score < 100

\* C11: the link contribution counts the candidate's links.  numLinks is
\* the number of entries of the candidate's deduplicated links, so a URL
\* found both in the List-Unsubscribe header and in a body anchor counts
\* once (link bonus 0.3 + 0.1).
LinkBonusCountsCandidateLinks ==
    \A i \in 1..Len(analyzed) :
        LET info     == analyzed[i]
            html     == extract_html_content(fetched[i])
            content  == IF html # <<>> THEN extract_text_preview(html) ELSE ""
            numLinks == Len(info.unsubscribe_links)
            L == IF numLinks >= 1 THEN 30 + Min(numLinks * 10, 20) ELSE 0
        IN  info.confidence_score =
                Min(100, HeaderScore(info.list_unsubscribe_header) + L
                           + SenderScore(info.sender) + SubjectScore(info.subject)
                           + ContentScore(content))

\* C12: a message with zero unsubscribe signals (no List-Unsubscribe
\* header, no extracted links, no blacklist substring in the sender, no
\* pattern match in the subject or the body text) is scored exactly 0.0.
NoSignals(i) ==
    LET msg     == fetched[i]
        sender  == Lower(extract_sender(msg))
        subject == Lower(Get(msg, "Subject", "No Subject"))
        text    == Lower(GetText(extract_html_content(msg)))
    IN  /\ msg.ListUnsubscribe = None
        /\ ExtractedLinks(msg) = <<>>
        /\ \A t \in Range(sender_blacklist) : ~Contains(sender, t)
        /\ \A n \in 1..Len(unsubscribe_patterns) :
              /\ ~ReSearch(unsubscribe_patterns[n], subject)
              /\ ~ReSearch(unsubscribe_patterns[n], text)

ZeroSignalsScoreZero ==
    \A i \in 1..Len(analyzed) : NoSignals(i) => analyzed[i].confidence_score = 0

\* C12, witness: a message without any signal, with a body text, was
\* analysed.
ZeroSignalsAnalysed ==
    \E i \in 1..Len(analyzed) :
        NoSignals(i) /\ extract_html_content(fetched[i]) # <<>>

\* C13: deduplication.  The links of every candidate contain each URL at
\* most once, whatever mix of header, anchor and button links produced
\* them, and every URL found appears (so a URL found both in the header and
\* in a body anchor appears exactly once).
LinksDeduplicated ==
    \A i \in 1..Len(analyzed) :
        LET links == analyzed[i].unsubscribe_links
        IN  /\ \A a, b \in 1..Len(links) : links[a] = links[b] => a = b
            /\ Range(links) = Range(ExtractedLinks(fetched[i]))

\* C13, witness: a URL was found twice in a message (in its header and in
\* its body) and the candidate holds it once.
DuplicateLinkDropped ==
    \E i \in 1..Len(analyzed) :
        LET found == ExtractedLinks(fetched[i])
        IN  /\ \E a, b \in 1..Len(found) : a # b /\ found[a] = found[b]
            /\ Len(analyzed[i].unsubscribe_links) < Len(found)

\* C14: every entry of a candidate's links starts with http:// or
\* https://, whether it came from the List-Unsubscribe header, an anchor or
\* a button's click handler; mailto: and other schemes are never stored.
LinksAreHttp ==
    \A i \in 1..Len(analyzed) :
        \A k \in 1..Len(analyzed[i].unsubscribe_links) :
            \/ StartsWith(analyzed[i].unsubscribe_links[k], "http://")
            \/ StartsWith(analyzed[i].unsubscribe_links[k], "https://")

\* C14, witness: a message with a mailto: anchor whose text matches a
\* pattern was analysed, and the candidate stores links.
MailtoAnchorAnalysed ==
    \E i \in 1..Len(analyzed) :
        /\ analyzed[i].unsubscribe_links # <<>>
        /\ \E n \in Range(extract_html_content(fetched[i])) :
              /\ n.tag = "a"
              /\ StartsWith(n.href, "mailto:")
              /\ AnyPattern(Lower(Strip(n.text)), Len(unsubscribe_patterns))

\* s.endswith(t)
EndsWith(s, t) == Len(s) >= Len(t) /\ At(s, Len(s) - Len(t) + 1, t)

\* The text extracted from the body of the i-th message analysed
ExtractedText(i) == GetText(extract_html_content(fetched[i]))

\* C15, as stated: the stored preview is never longer than 203 characters
\* and ends with the marker '...' exactly when the extracted text was longer
\* than 200 characters.
PreviewMarkedIffTruncated ==
    \A i \in 1..Len(analyzed) :
        /\ Len(analyzed[i].content_preview) <= 203
        /\ EndsWith(analyzed[i].content_preview, "...") <=> Len(ExtractedText(i)) > 200

\* C15, amended: the stored preview is never longer than 203 characters; a
\* text longer than 200 characters is stored as its first 200 characters
\* followed by '...', any other text is stored unchanged (and so ends with
\* '...' only if the text itself does).
PreviewTruncation ==
    \A i \in 1..Len(analyzed) :
        LET text == ExtractedText(i)
            kept == analyzed[i].content_preview
        IN  /\ Len(kept) <= 203
            /\ Len(text) > 200 => kept = Take(text, 200) \o "..."
            /\ Len(text) <= 200 => kept = text

\* C15, witness: a text of more than 500 characters was stored truncated
\* and a short text ending with three dots was stored unchanged.
PreviewsOfBothKinds ==
    /\ \E i \in 1..Len(analyzed) :
          Len(ExtractedText(i)) > 500 /\ Len(analyzed[i].content_preview) = 203
    /\ \E i \in 1..Len(analyzed) :
          /\ Len(ExtractedText(i)) <= 200
          /\ EndsWith(ExtractedText(i), "...")
          /\ analyzed[i].content_preview = ExtractedText(i)

\* C16: idempotence and deterministic link order.  Analysing the same
\* message again yields the field values of its first analysis (other than
\* a defaulted date), including the enumeration order of the links, so that
\* a URL has the same position and link_<n> label in every execution.
SameAnalysisEveryTime ==
    \A i \in 1..Len(analyzed) :
        LET now  == analyzed[i]
            then == first_seen[fetched[i]]
        IN  /\ now.email_id = then.email_id
            /\ now.sender = then.sender
            /\ now.subject = then.subject
            /\ now.unsubscribe_links = then.unsubscribe_links
            /\ now.unsubscribe_email = then.unsubscribe_email
            /\ now.list_unsubscribe_header = then.list_unsubscribe_header
            /\ now.confidence_score = then.confidence_score
            /\ now.content_preview = then.content_preview
            /\ fetched[i].Date \in WellFormedDates => now.email_date = then.email_date

\* C17: threshold filter.  After an analysis run the candidate store holds
\* exactly the analysed candidates whose confidence is greater than or
\* equal to the confidence threshold, in the order they were analysed; no
\* candidate below the threshold is ever stored or executed.
ThresholdFilter ==
    /\ pc \notin {"ready", "analyze"}
       => unsubscribe_infos =
              SelectSeq(analyzed, LAMBDA c : c.confidence_score >= confidence_threshold)
    /\ \A k \in 1..Len(unsubscribe_infos) :
          unsubscribe_infos[k].confidence_score >= confidence_threshold
    /\ call # "none" => Current.confidence_score >= confidence_threshold

\* C17, witness: a run is complete in which one message scored below the
\* threshold and another exactly the threshold, and only the latter is in
\* the store.
FilteredRunComplete ==
    /\ pc = "review"
    /\ \E k \in 1..Len(analyzed) : analyzed[k].confidence_score < confidence_threshold
    /\ \E k \in 1..Len(analyzed) : analyzed[k].confidence_score = confidence_threshold
    /\ Len(unsubscribe_infos) = 1

\* The ids the searches of the current run returned
AllFound == UNION {search_data[k] : k \in 1..Len(search_data)}

\* C18: email limit.  In one analysis run the analyzer is handed at most
\* emailLimit messages, and a message returned by several search criteria
\* is analysed at most once.
EmailLimit ==
    /\ Len(fetched) <= limit_var
    /\ Len(email_ids) <= limit_var
    /\ \A a, b \in 1..Len(email_ids) : email_ids[a] = email_ids[b] => a = b
    /\ \A a \in 1..Len(email_ids) : email_ids[a] \in AllFound
    /\ pc = "analyze" => Len(fetched) = Len(email_ids) - todo

\* C18, witness: the searches returned more messages than the limit, one of
\* them for two criteria, and the loop has analysed as many as the limit.
LimitReached ==
    /\ pc = "analyze"
    /\ todo = 0
    /\ Cardinality(AllFound) > limit_var
    /\ Len(fetched) = limit_var
    /\ \E a, b \in 1..Len(search_data) :
          a # b /\ \E id \in search_data[a] \cap search_data[b] :
                      \E k \in 1..Len(email_ids) : email_ids[k] = id

\* The items perform_unsubscribe has finished with
Processed == IF pc \in {"item", "links", "return", "finished"} THEN item - 1 ELSE 0

\* C19: aggregation.  During and after an unsubscribe pass the batch result
\* has exactly one entry for each candidate processed so far, in processing
\* order (the k-th entry carries the sender of the k-th selected candidate),
\* successful_count is the number of entries whose success flag is true and
\* lies between 0 and the number of selected candidates, and when the pass
\* has finished there is one entry for every selected candidate, also when
\* processing a candidate raised an error.
BatchAggregation ==
    pc \in {"item", "links", "return", "finished"} =>
        /\ Len(batch_results) = Processed
        /\ Processed <= Len(selected_items)
        /\ \A k \in 1..Len(batch_results) :
              batch_results[k].sender = unsubscribe_infos[selected_items[k]].sender
        /\ successful_count
              = Cardinality({k \in 1..Len(batch_results) : batch_results[k].success})
        /\ 0 <= successful_count /\ successful_count <= Len(selected_items)
        /\ pc = "finished" => Len(batch_results) = Len(selected_items)

\* A finished pass over two candidates, one of which succeeded and one of
\* which raised an error
MixedBatchFinished ==
    /\ pc = "finished"
    /\ Len(selected_items) = 2
    /\ successful_count = 1
    /\ \E a, b \in 1..Len(batch_results) :
          /\ batch_results[a].success
          /\ ~batch_results[b].success
          /\ StartsWith(batch_results[b].details, "Error: ")

\* total_emails of a sender in the sender_stats table, 0 without a row
TotalSeen(sender) ==
    LET rows == SelectSeq(sender_stats, LAMBDA r : r.sender = sender)
    IN  IF rows = <<>> THEN 0 ELSE rows[1].total_emails

\* C20: sender statistics.  The per-sender totalSeen counter is incremented
\* exactly once for each analyzed candidate: for every sender, the counter
\* equals the number of messages of that sender the analyzer has turned
\* into a candidate, whether or not the candidate is executed later.
SeenOncePerAnalyzed ==
    \A i \in 1..Len(analyzed) :
        TotalSeen(analyzed[i].sender)
            = Cardinality({k \in 1..Len(analyzed) : analyzed[k].sender = analyzed[i].sender})

\* C21: cancellation.  A running unsubscribe pass can be cancelled between
\* attempts: whenever a candidate still has links to request, the executor
\* can return with the outcomes it has so far, and whenever selected items
\* are still to be processed, the pass can end, so that no further link
\* request is issued.
CancellableBetweenAttempts ==
    /\ (pc = "links" /\ link_i < Len(Current.unsubscribe_links)) => ENABLED ReturnResults
    /\ (pc = "item" /\ item <= Len(selected_items)) => ENABLED FinishUnsubscribe

\* C22: batch-fatal error.  When the message source cannot be reached at
\* the start of an analysis run, the run ends with zero candidates in the
\* candidate store: while the status reports the failed connection, nothing,
\* stale or partial, is left in the store.
NoCandidatesAfterFailedConnection ==
    status_var = "Connection failed" => unsubscribe_infos = <<>>

\* No worker thread is running
Quiet(ths) == \A t \in 1..MaxRuns : ths[t].kind \in {"none", "done"}

\* C23: a single bad message never aborts a batch.  In an analysis run,
\* every turn of the loop, also one in which the fetch or the analysis
\* raised, moves on to the next message only; the store holds one candidate
\* for every turn that did not fail; the run ends only after the last
\* message had its turn and then hands the refresh of the display to the
\* main loop, and once the main loop has run it the rows show the store.
BadMessageSkipped ==
    [][ /\ \A t \in 1..MaxRuns :
              LET th == threads[t]
                  after == threads'[t]
              IN  (th.kind = "analyze_emails" /\ th.at = "loop") =>
                     /\ after.kind = "analyze_emails" =>
                           /\ after.total = th.total
                           /\ after.i \in {th.i, th.i + 1}
                           /\ Len(unsubscribe_infos') = after.i - Cardinality(after.failed)
                     /\ after.kind = "done" =>
                           /\ th.i = th.total
                           /\ \E k \in 1..Len(after_queue') :
                                 /\ k > Len(after_queue)
                                 /\ after_queue'[k] = "update_results_display"
        /\ (Quiet(threads') /\ after_queue' = <<>>) => tree'.rows = unsubscribe_infos'
      ]_vars

\* C23, witness: the first of two messages failed and the second one was
\* analysed and stored
SecondAnalysedAfterFailure ==
    \E t \in 1..MaxRuns :
        /\ threads[t].kind = "analyze_emails"
        /\ threads[t].total = 2
        /\ threads[t].i = 2
        /\ threads[t].failed = {1}
        /\ Len(unsubscribe_infos) = 1

\* The body of a page holds one of the success phrases, in any letter case
HasSuccessPhrase(text) ==
    \E phrase \in {"successfully unsubscribed", "removed from list", "unsubscribe successful",
                   "email preferences updated", "subscription cancelled"} :
        Contains(Lower(text), phrase)

\* A form of the page has a text that holds one of the three words
HasUnsubscribeForm(page) ==
    \E k \in 1..Len(page.forms) :
        \E word \in {"unsubscribe", "remove", "opt out"} : Contains(Lower(page.forms[k]), word)

\* C24: link response classification.  Every link request yields one
\* outcome, by this precedence: status 200 with a success phrase in the body
\* gives the success outcome, also when the page has an unsubscribe form;
\* otherwise status 200 with an unsubscribe form gives the form-found
\* outcome; otherwise status 200 gives 'visited but unclear'; another
\* status gives the status-code outcome; a timeout the timeout outcome and
\* another transport error the error outcome.
LinkClassification ==
    \A k \in 1..Len(attempts) :
        LET link     == attempts[k].target
            response == attempts[k].ended
            outcome  == attempts[k].result
        IN  /\ response.kind = "timeout" => outcome = "Timeout accessing: " \o link
            /\ response.kind = "error" =>
                  outcome = "Error accessing " \o link \o ": " \o response.msg
            /\ response.kind = "http" =>
                  IF response.status_code # 200
                  THEN outcome = "Failed to visit " \o link \o " - Status Code: "
                                     \o Str(response.status_code)
                  ELSE IF HasSuccessPhrase(response.page.text)
                  THEN outcome = "Successfully unsubscribed via: " \o link
                  ELSE IF HasUnsubscribeForm(response.page)
                  THEN outcome = "Found unsubscribe form at " \o link
                                     \o " (auto-submission not implemented for safety)"
                  ELSE outcome = "Visited " \o link \o " but unclear if unsubscribed successfully"

\* C24, witness: a page with a success phrase and an unsubscribe form was
\* classified as a success
SuccessPageWithFormVisited ==
    \E k \in 1..Len(attempts) :
        /\ attempts[k].ended.kind = "http"
        /\ attempts[k].ended.status_code = 200
        /\ HasSuccessPhrase(attempts[k].ended.page.text)
        /\ HasUnsubscribeForm(attempts[k].ended.page)
        /\ StartsWith(attempts[k].result, "Successfully unsubscribed via: ")

\* Some link request of the current call returned status 200 with a success
\* phrase in its body
ConfirmedByPage ==
    \E k \in 1..Len(attempts) :
        /\ attempts[k].strategy # "email"
        /\ attempts[k].ended = "200"
        /\ attempts[k].result = "Successfully unsubscribed via: " \o attempts[k].target

\* C25: a candidate's overall success is true, and its remaining links are
\* skipped, only if some link request returned status 200 with a body that
\* holds a success phrase; no other outcome counts as a success, whatever
\* the link or the mail address contains.
SuccessOnlyByConfirmingPage ==
    /\ (call = "returned" /\ batch_results[Len(batch_results)].success) => ConfirmedByPage
    /\ pc = "return" => ConfirmedByPage

\* Some worker thread is running analyze_emails, some perform_unsubscribe
Running(kind) == {t \in 1..MaxRuns : threads[t].kind = kind}

\* C26: at most one background worker runs at a time.  While an analysis
\* run or an unsubscribe pass is in progress no user action starts another
\* run, so that no analysis resets or refills the candidate store while an
\* unsubscribe pass is indexing it.
OneWorkerAtATime ==
    Cardinality(Running("analyze_emails") \cup Running("perform_unsubscribe")) <= 1

\* C27: whenever the Smart Unsubscribe button is enabled, the results view
\* and the candidate store are aligned: they have the same number of
\* entries and row i displays candidate i.
ViewAlignedWhenEnabled ==
    unsubscribe_button = "normal" => tree.rows = unsubscribe_infos

\* C28: every started background run eventually finishes and re-enables
\* the Analyze button, on every exit path of an analysis run and after an
\* unsubscribe pass has processed all selected items, failed ones included.
RunsFinishAndReenable ==
    \A t \in 1..MaxRuns :
        (threads[t].kind \in {"analyze_emails", "perform_unsubscribe"})
            ~> (threads[t].kind = "done" /\ analyze_button = "normal")

\* C28, witness: an unsubscribe pass ended after an item of it had raised,
\* and the Analyze button is enabled again
PassWithErrorEnded ==
    /\ Quiet(threads)
    /\ analyze_button = "normal"
    /\ status_var = "Unsubscribe process completed:"
    /\ results_windows > 0
    /\ history = <<>>

\* C29: once a link request of a candidate has returned a 200 response with
\* a success phrase, no further link of that candidate is requested and the
\* outcome returned for that link is the success text, also when persisting
\* the attempt to the history store failed.
SuccessSurvivesFailedWrite ==
    \A k \in 1..Len(attempts) :
        ( /\ attempts[k].strategy # "email"
          /\ attempts[k].ended = "200"
          /\ attempts[k].result = "Successfully unsubscribed via: " \o attempts[k].target )
        => /\ k = Len(attempts)
           /\ DictGet(results, attempts[k].strategy) = attempts[k].result

\* The rows of a sender in a sender_stats table (sender is its primary key)
RowsOf(table, sender) == SelectSeq(table, LAMBDA r : r.sender = sender)

\* The step leaves sender with one row whose total_emails is one more than
\* before (than 0 without a row) and whose unsubscribed is as before (0
\* without a row), and leaves the rows of the other senders as they were
CountedOnce(sender) ==
    LET old == RowsOf(sender_stats, sender)
        new == RowsOf(sender_stats', sender)
    IN  /\ Len(new) = 1
        /\ new[1].total_emails = (IF old = <<>> THEN 0 ELSE old[1].total_emails) + 1
        /\ new[1].unsubscribed = (IF old = <<>> THEN 0 ELSE old[1].unsubscribed)
        /\ \A k \in 1..Len(sender_stats) :
              sender_stats[k].sender # sender
                 => RowsOf(sender_stats', sender_stats[k].sender) = <<sender_stats[k]>>
        /\ Len(sender_stats') = Len(sender_stats) + (IF old = <<>> THEN 1 ELSE 0)

\* Thread t, the only analysis run in its loop, stores a candidate and
\* reports the turn as analysed: its call of update_sender_stats returned
CallReturned(t) ==
    /\ threads[t].kind = "analyze_emails" /\ threads[t].at = "loop"
    /\ \A u \in 1..MaxRuns : u # t => threads[u].kind # "analyze_emails"
    /\ threads'[t].kind = "analyze_emails"
    /\ threads'[t].i = threads[t].i + 1
    /\ Len(unsubscribe_infos') = Len(unsubscribe_infos) + 1
    /\ status_var' = AnalyzedStatus(threads[t].i + 1, threads[t].total)

\* C30: update_sender_stats(sender) increments that sender's total_emails
\* by exactly 1, starting from 0 for an unknown sender, leaves that
\* sender's unsubscribed count unchanged and leaves the rows of all other
\* senders unchanged; no operation ever raises a sender's unsubscribed
\* count above 0.
SenderStatsFrame ==
    /\ [](\A k \in 1..Len(sender_stats) : sender_stats[k].unsubscribed = 0)
    /\ [][ /\ \A t \in 1..MaxRuns :
                CallReturned(t) =>
                   CountedOnce(unsubscribe_infos'[Len(unsubscribe_infos')].sender)
           /\ sender_stats' # sender_stats =>
                \E k \in 1..Len(sender_stats') : CountedOnce(sender_stats'[k].sender)
       ]_vars

SecondSenderCountedTwice ==
    /\ Len(sender_stats) = 2
    /\ sender_stats[2].total_emails = 2
    /\ sender_stats[1].total_emails = 1
    /\ results_windows > 0

=============================================================================
